---- MODULE Spec2Model ----
(***************************************************************************)
(* Model of the Code Nexus processing-pipeline subsystem                   *)
(* (ex2/nexus_pipeline.py and solution/ex2/nexus_pipeline.py): stages,     *)
(* ProcessingPipeline, the adapter subclasses and NexusManager.            *)
(*                                                                         *)
(* Python values are tagged records [t, v].  A Python str is kept as a     *)
(* sequence of chunks: a quote, a double quote and a backslash are each a  *)
(* chunk of their own and every maximal run of other characters is one     *)
(* chunk, so that equal strings have equal representations and repr() can  *)
(* pick its quote and escape character by character.                       *)
(***************************************************************************)
EXTENDS Integers, Sequences, FiniteSets, TLC

\* ----------------------------------------------------------------- bounds
\* add_stage calls that append, over all pipelines
MaxStages == 3
\* run() calls and manager stats increments, over all pipelines
MaxRuns == 3
\* longest id list handed to chain
MaxChain == 3

\* ----------------------------------------------------------- Python values
SQ == "'"
DQ == "\""
BS == "\\"

Special(c) == c \in {SQ, DQ, BS}

\* concatenation of two strings in chunk form
Cat(a, b) ==
    IF a = <<>> THEN b
    ELSE IF b = <<>> THEN a
    ELSE IF ~Special(a[Len(a)]) /\ ~Special(b[1])
         THEN SubSeq(a, 1, Len(a) - 1) \o <<a[Len(a)] \o b[1]>> \o Tail(b)
         ELSE a \o b

Cat3(a, b, c) == Cat(Cat(a, b), c)

PyNone == [t |-> "none", v |-> <<>>]
PyStrOf(chunks) == [t |-> "str", v |-> chunks]
PyFloat(tok) == [t |-> "float", v |-> <<tok>>]
PyDict(items) == [t |-> "dict", v |-> items]
PyList(elems) == [t |-> "list", v |-> elems]

HasKey(d, k) == d.t = "dict" /\ \E i \in 1..Len(d.v) : d.v[i][1] = k
GetKey(d, k) == d.v[CHOOSE i \in 1..Len(d.v) : d.v[i][1] = k][2]
\* d[k] = x on a dict that holds k: the key keeps its position
SetKey(d, k, x) ==
    PyDict([i \in 1..Len(d.v) |-> IF d.v[i][1] = k THEN <<k, x>> ELSE d.v[i]])

\* repr() of a str: double quotes when it holds a quote and no double quote,
\* else quotes; the backslash and the chosen quote are escaped
ReprStr(s) ==
    LET hasSQ == \E i \in 1..Len(s) : s[i] = SQ
        hasDQ == \E i \in 1..Len(s) : s[i] = DQ
        q == IF hasSQ /\ ~hasDQ THEN DQ ELSE SQ
        Esc[i \in 0..Len(s)] ==
            IF i = 0 THEN <<>>
            ELSE Esc[i - 1] \o (IF s[i] = BS \/ s[i] = q THEN <<BS, s[i]>> ELSE <<s[i]>>)
    IN <<q>> \o Esc[Len(s)] \o <<q>>

RECURSIVE Str(_), Repr(_), JoinItems(_, _), JoinElems(_, _)
\* str(x), as an f-string field formats it
Str(x) ==
    CASE x.t = "str" -> x.v
      [] x.t = "none" -> <<"None">>
      [] x.t = "float" -> x.v
      [] x.t = "dict" -> Cat3(<<"{">>, JoinItems(x.v, 1), <<"}">>)
      [] x.t = "list" -> Cat3(<<"[">>, JoinElems(x.v, 1), <<"]">>)
Repr(x) == IF x.t = "str" THEN ReprStr(x.v) ELSE Str(x)
JoinItems(items, i) ==
    IF i > Len(items) THEN <<>>
    ELSE Cat(Cat3(<<SQ, items[i][1], SQ>>, <<": ">>, Repr(items[i][2])),
             IF i < Len(items) THEN Cat(<<", ">>, JoinItems(items, i + 1)) ELSE <<>>)
JoinElems(elems, i) ==
    IF i > Len(elems) THEN <<>>
    ELSE Cat(Repr(elems[i]),
             IF i < Len(elems) THEN Cat(<<", ">>, JoinElems(elems, i + 1)) ELSE <<>>)

\* --------------------------------------------------------------- outcomes
NoValue == [t |-> "absent", v |-> <<>>]
NoError == [type |-> "", arg |-> ""]
Returned(x) == [ok |-> TRUE, val |-> x, err |-> NoError]
Raised(type, arg) == [ok |-> FALSE, val |-> NoValue, err |-> [type |-> type, arg |-> arg]]

\* ------------------------------------------------------------------ stages
StageClasses == {"Stage", "InputStage", "TransformStage", "OutputStage"}
\* an add_stage argument that is no Stage instance
NotAStage == "object"

Stage_process(data) == Raised("Exception", "Stage must implement process()")

InputStage_process(data) ==
    Returned(PyDict(<< <<"data", data>>, <<"status", PyStrOf(<<"input_ok">>)>> >>))

\* faulty variant: the envelope is not unwrapped: the whole input is the value
TransformWholeInput(data) ==
    Returned(PyDict(<< <<"data", PyStrOf(Cat3(<<"processed(">>, Str(data), <<")">>))>> >>))

TransformStage_process(data) ==
    LET isEnv == data.t = "dict" /\ HasKey(data, "data")
        value == IF isEnv THEN GetKey(data, "data") ELSE data
        env == IF isEnv THEN data ELSE PyDict(<< <<"data", value>> >>)
    IN Returned(SetKey(env, "data", PyStrOf(Cat3(<<"processed(">>, Str(value), <<")">>))))

\* faulty variant: the field is read with data.get('data'), so a dict without it
\* is formatted as "Output: None"
OutputStageDefaultsMissing(data) ==
    IF data.t = "dict"
    THEN Returned(PyStrOf(Cat(<<"Output: ">>,
                              Str(IF HasKey(data, "data") THEN GetKey(data, "data")
                                  ELSE PyNone))))
    ELSE Raised("TypeError", data.t)

\* data['data']: KeyError on a dict without the key, TypeError on a value
\* that cannot be indexed by a str
OutputStage_process(data) ==
    IF data.t = "dict"
    THEN IF HasKey(data, "data")
         THEN Returned(PyStrOf(Cat(<<"Output: ">>, Str(GetKey(data, "data")))))
         ELSE Raised("KeyError", "data")
    ELSE Raised("TypeError", data.t)

stage_process(stage, data) ==
    CASE stage = "Stage" -> Stage_process(data)
      [] stage = "InputStage" -> InputStage_process(data)
      [] stage = "TransformStage" -> TransformStage_process(data)
      [] stage = "OutputStage" -> OutputStage_process(data)
      [] OTHER -> Raised("AttributeError", "process")

\* -------------------------------------------------------------- the state
\* The pipeline objects of a session, as constructed: p1, p2, p3 of main
\* (ids A, B, C) and an adapter built under the id A, each with runs and
\* errors at 0; the adapter's constructor has installed its three stages.
Objs == {1, 2, 3, 4}
Ids == {"A", "B", "C"}
AdapterClasses == {"JSONAdapter", "CSVAdapter", "StreamAdapter"}

VARIABLES
    adapter,    \* the class of object 4
    stages,     \* stages[o]: self.stages of pipeline object o
    metrics,    \* metrics[o]: self.metrics of pipeline object o
    pipelines,  \* NexusManager.pipelines: id -> pipeline object
    stats,      \* NexusManager.stats: a defaultdict(int), id -> count
    last        \* the last call: its name, its add_stage argument, its outcome

vars == <<adapter, stages, metrics, pipelines, stats, last>>

pipeline_id(o) == CASE o = 1 -> "A" [] o = 2 -> "B" [] o = 3 -> "C" [] o = 4 -> "A"
class_of(o) == IF o = 4 THEN adapter ELSE "ProcessingPipeline"

\* the inputs callers hand in: None, the str of main, a dict without 'data'
JsonRecord ==
    PyDict(<< <<"sensor", PyStrOf(<<"temp">>)>>, <<"value", PyFloat("23.5")>> >>)
RawData == PyStrOf(<<"raw_data">>)
Inputs == {PyNone, RawData, JsonRecord}

read(class) ==
    CASE class = "JSONAdapter" -> JsonRecord
      [] class = "CSVAdapter" -> PyStrOf(<<"user,action,timestamp">>)
      [] class = "StreamAdapter" ->
            PyList(<<PyStrOf(<<"22.1">>), PyStrOf(<<"22.3">>), PyStrOf(<<"22.0">>)>>)

AdapterStages == <<"InputStage", "TransformStage", "OutputStage">>

ProcessingPipeline_init(o) ==
    [stages |-> IF o = 4 THEN AdapterStages ELSE <<>>,
     metrics |-> [runs |-> 0, errors |-> 0]]

\* ------------------------------------------------------ ProcessingPipeline
\* the for loop of run from stage i on: the outcome, and the stage
\* positions whose process() was called
RECURSIVE RunStages(_, _, _)
\* stage i was called, then the rest of the loop ran
RunStagesAfter(i, rest) == [out |-> rest.out, invoked |-> <<i>> \o rest.invoked]
\* r is what stage i made of the data: data = stage.process(data), or the
\* exception leaves the loop
RunStagesStep(stgs, i, r) ==
    IF r.ok THEN RunStagesAfter(i, RunStages(stgs, i + 1, r.val))
    ELSE [out |-> r, invoked |-> <<i>>]
\* faulty variant: the loop calls stage.process(data) and drops what it returns
RunStagesUnassigned(stgs, i, data) ==
    IF i > Len(stgs) THEN [out |-> Returned(data), invoked |-> <<>>]
    ELSE IF stage_process(stgs[i], data).ok
         THEN RunStagesAfter(i, RunStages(stgs, i + 1, data))
         ELSE [out |-> stage_process(stgs[i], data), invoked |-> <<i>>]
RunStages(stgs, i, data) ==
    IF i > Len(stgs) THEN [out |-> Returned(data), invoked |-> <<>>]
    ELSE RunStagesStep(stgs, i, stage_process(stgs[i], data))

\* faulty variant: no isinstance check: whatever is passed is appended
AddStageUnchecked(stgs, arg) == Append(stgs, arg)

\* self.stages after add_stage(arg)
ProcessingPipeline_add_stage(stgs, arg) ==
    IF arg \in StageClasses THEN Append(stgs, arg) ELSE stgs

\* run of object o from the metrics m: the metrics after it, the outcome and
\* the <<object, stage position>> pairs whose process() was called
\* faulty variant: the except clause counts the error and does not raise again
RunExceptSwallows(counted, o, r) ==
    [metrics |-> IF r.out.ok THEN counted
                 ELSE [counted EXCEPT ![o].errors = @ + 1],
     out |-> IF r.out.ok THEN r.out ELSE Returned(PyNone),
     invoked |-> [i \in 1..Len(r.invoked) |-> <<o, r.invoked[i]>>]]

\* faulty variant: errors is counted in a class attribute shared by every pipeline
RunExceptSharedErrors(counted, o, r) ==
    [metrics |-> IF r.out.ok THEN counted
                 ELSE [p \in Objs |-> [counted[p] EXCEPT !.errors = @ + 1]],
     out |-> r.out,
     invoked |-> [i \in 1..Len(r.invoked) |-> <<o, r.invoked[i]>>]]

\* r is the outcome of the try block, counted the metrics after runs += 1
RunExcept(counted, o, r) ==
    [metrics |-> IF r.out.ok THEN counted
                 ELSE [counted EXCEPT ![o].errors = @ + 1],
     out |-> r.out,
     invoked |-> [i \in 1..Len(r.invoked) |-> <<o, r.invoked[i]>>]]

\* faulty variant: runs is counted after the loop, so only when every stage returned
RunCountedOnReturn(m, o, data) ==
    RunExcept(IF RunStages(stages[o], 1, data).out.ok
              THEN [m EXCEPT ![o].runs = @ + 1] ELSE m,
              o, RunStages(stages[o], 1, data))

ProcessingPipeline_run(m, o, data) ==
    RunExcept([m EXCEPT ![o].runs = @ + 1], o, RunStages(stages[o], 1, data))

ProcessingPipeline_process(m, o, data) == ProcessingPipeline_run(m, o, data)

\* ---------------------------------------------------------------- adapters
AdapterLabel(class) ==
    CASE class = "JSONAdapter" -> "Processed JSON data: "
      [] class = "CSVAdapter" -> "Processed CSV data: "
      [] class = "StreamAdapter" -> "Processed Stream data: "

\* the process override of the three adapters
Adapter_process(m, o, data) ==
    LET source == IF data.t = "none" THEN read(class_of(o)) ELSE data
    IN [metrics |-> m,
        out |-> Returned(PyStrOf(Cat(<<AdapterLabel(class_of(o))>>, Str(source)))),
        invoked |-> <<>>]

\* pipeline.process(data), dispatched on the class of the object
pipeline_process(m, o, data) ==
    IF class_of(o) \in AdapterClasses THEN Adapter_process(m, o, data)
    ELSE ProcessingPipeline_process(m, o, data)

\* ------------------------------------------------------------ NexusManager
\* faulty variant: an id already present keeps its first pipeline
RegisterKeepsFirst(reg, o) ==
    IF pipeline_id(o) \in DOMAIN reg THEN reg ELSE reg @@ (pipeline_id(o) :> o)

register_pipeline_map(reg, o) ==
    IF pipeline_id(o) \in DOMAIN reg THEN [reg EXCEPT ![pipeline_id(o)] = o]
    ELSE reg @@ (pipeline_id(o) :> o)

\* self.stats[id] += 1 on the defaultdict
StatsIncrement(s, id) ==
    IF id \in DOMAIN s THEN [s EXCEPT ![id] = @ + 1] ELSE s @@ (id :> 1)

\* faulty variant: stats[id] += 1 is done whether process raised or not
ExecuteCountedAlways(s, id, o, p) ==
    [metrics |-> p.metrics, stats |-> StatsIncrement(s, id),
     out |-> p.out, invoked |-> p.invoked, ran |-> <<o>>, steps |-> 1]

\* p is what pipeline.process(data) did on object o: stats[id] += 1 and the
\* return follow only when it raised nothing
ExecuteCounted(s, id, o, p) ==
    [metrics |-> p.metrics,
     stats |-> IF p.out.ok THEN StatsIncrement(s, id) ELSE s,
     out |-> p.out, invoked |-> p.invoked, ran |-> <<o>>, steps |-> 1]

\* faulty variant: the stats entry is read before the lookup, which makes the
\* defaultdict create it
ExecuteTouchesStats(reg, m, s, id, data) ==
    IF id \notin DOMAIN reg
    THEN [metrics |-> m, stats |-> IF id \in DOMAIN s THEN s ELSE s @@ (id :> 0),
          out |-> Raised("KeyError", id), invoked |-> <<>>, ran |-> <<>>, steps |-> 1]
    ELSE ExecuteCounted(s, id, reg[id], pipeline_process(m, reg[id], data))

\* execute on the registry reg from the metrics m and stats s; ran lists the
\* objects whose process() was called, steps counts the execute calls made
NexusManager_execute(reg, m, s, id, data) ==
    IF id \notin DOMAIN reg
    THEN [metrics |-> m, stats |-> s, out |-> Raised("KeyError", id),
          invoked |-> <<>>, ran |-> <<>>, steps |-> 1]
    ELSE ExecuteCounted(s, id, reg[id], pipeline_process(m, reg[id], data))

RECURSIVE NexusManager_chain(_, _, _, _, _, _)
\* the for loop of chain from position i of pipeline_ids on
\* step e was made, then the rest of the loop ran
ChainAfter(e, rest) ==
    [metrics |-> rest.metrics, stats |-> rest.stats, out |-> rest.out,
     invoked |-> e.invoked \o rest.invoked, ran |-> e.ran \o rest.ran,
     steps |-> 1 + rest.steps]
\* faulty variant: a failed step is skipped and the loop goes on with None
ChainStepSkipsFailure(reg, ids, i, e) ==
    ChainAfter(e, NexusManager_chain(reg, e.metrics, e.stats, ids, i + 1,
                                     IF e.out.ok THEN e.out.val ELSE PyNone))
\* e is what self.execute(pid, data) did at position i: data = its result,
\* or its exception leaves the loop
ChainStep(reg, ids, i, e) ==
    IF e.out.ok
    THEN ChainAfter(e, NexusManager_chain(reg, e.metrics, e.stats, ids, i + 1, e.out.val))
    ELSE e
NexusManager_chain(reg, m, s, ids, i, data) ==
    IF i > Len(ids)
    THEN [metrics |-> m, stats |-> s, out |-> Returned(data),
          invoked |-> <<>>, ran |-> <<>>, steps |-> 0]
    ELSE ChainStep(reg, ids, i, NexusManager_execute(reg, m, s, ids[i], data))

\* ------------------------------------------------------------------- calls
StatsOf(s, id) == IF id \in DOMAIN s THEN s[id] ELSE 0

TotalRuns(m) == m[1].runs + m[2].runs + m[3].runs + m[4].runs
TotalStats(s) == StatsOf(s, "A") + StatsOf(s, "B") + StatsOf(s, "C")
TotalAdded(st) == Len(st[1]) + Len(st[2]) + Len(st[3]) + Len(st[4]) - Len(AdapterStages)
Within(m, s) == TotalRuns(m) <= MaxRuns /\ TotalStats(s) <= MaxRuns

Call(op, arg, out, steps) ==
    [op |-> op, arg |-> arg, ok |-> out.ok, error |-> out.err.type, steps |-> steps]

\* an empty dict
EmptyMap == [k \in {} |-> 0]

IdListsOver(S) == UNION {[1..n -> S] : n \in 0..MaxChain}
IdLists == IdListsOver(Ids)

Fresh ==
    /\ stages = [o \in Objs |-> ProcessingPipeline_init(o).stages]
    /\ metrics = [o \in Objs |-> ProcessingPipeline_init(o).metrics]
    /\ pipelines = EmptyMap
    /\ stats = EmptyMap
    /\ last = Call("init", "", Returned(PyNone), 0)

add_stage(o, arg) ==
    /\ arg \in StageClasses => TotalAdded(stages) < MaxStages
    /\ stages' = [stages EXCEPT ![o] = ProcessingPipeline_add_stage(@, arg)]
    /\ last' = Call("add_stage", arg, Returned(PyNone), 0)
    /\ UNCHANGED <<adapter, metrics, pipelines, stats>>

\* a direct call on a pipeline object took effect: r is what it did
PipelineCalled(op, r) ==
    /\ Within(r.metrics, stats)
    /\ metrics' = r.metrics
    /\ last' = Call(op, "", r.out, 0)
    /\ UNCHANGED <<adapter, stages, pipelines, stats>>

\* a call on the manager took effect: r is what it did
ManagerCalled(op, r) ==
    /\ Within(r.metrics, r.stats)
    /\ metrics' = r.metrics
    /\ stats' = r.stats
    /\ last' = Call(op, "", r.out, r.steps)
    /\ UNCHANGED <<adapter, stages, pipelines>>

run(o, data) == PipelineCalled("run", ProcessingPipeline_run(metrics, o, data))

process(o, data) == PipelineCalled("process", pipeline_process(metrics, o, data))

register_pipeline(o) ==
    /\ pipelines' = register_pipeline_map(pipelines, o)
    /\ last' = Call("register_pipeline", "", Returned(PyNone), 0)
    /\ UNCHANGED <<adapter, stages, metrics, stats>>

execute(id, data) ==
    ManagerCalled("execute", NexusManager_execute(pipelines, metrics, stats, id, data))

chain(ids, data) ==
    ManagerCalled("chain", NexusManager_chain(pipelines, metrics, stats, ids, 1, data))

\* ---------------------------------------------------------- specifications
\* A manager session over one pipeline and one adapter that share the id A
\* (B is never registered): every stage class, every input, direct calls
\* and calls through execute and chain.
Init == adapter = "JSONAdapter" /\ Fresh

Next ==
    \/ \E arg \in StageClasses \cup {NotAStage} : add_stage(1, arg)
    \/ \E o \in {1, 4}, data \in Inputs : run(o, data)
    \/ \E o \in {1, 4}, data \in Inputs : process(o, data)
    \/ \E o \in {1, 4} : register_pipeline(o)
    \/ \E id \in {"A", "B"}, data \in Inputs : execute(id, data)
    \/ \E ids \in IdListsOver({"A", "B"}), data \in Inputs : chain(ids, data)

Spec == Init /\ [][Next]_vars

\* Pipelines on their own, no manager: a pipeline and an adapter of any of
\* the three classes, built and called directly.
InitPipeline == adapter \in AdapterClasses /\ Fresh

NextPipeline ==
    \/ \E o \in {1, 4}, arg \in StageClasses \cup {NotAStage} : add_stage(o, arg)
    \/ \E o \in {1, 4}, data \in Inputs : run(o, data)
    \/ \E o \in {1, 4}, data \in Inputs : process(o, data)

SpecPipeline == InitPipeline /\ [][NextPipeline]_vars

\* The chaining demo of main, generalised: the pipelines A, B, C are given
\* TransformStage or base Stage instances, registered, and run through
\* execute and chain.
ChainInputs == {RawData}

InitChain == adapter = "JSONAdapter" /\ Fresh

NextChain ==
    \/ \E o \in {1, 2, 3}, arg \in {"TransformStage", "Stage"} : add_stage(o, arg)
    \/ \E o \in {1, 2, 3} : register_pipeline(o)
    \/ \E id \in Ids, data \in ChainInputs : execute(id, data)
    \/ \E ids \in IdLists, data \in ChainInputs : chain(ids, data)

SpecChain == InitChain /\ [][NextChain]_vars

\* A manager that owns its pipelines: an adapter of any class under the id
\* A, the pipeline B, which is given stages, and the stageless pipeline C
\* are each registered at most once, never replaced, and called through
\* execute and chain only.
InitManaged == adapter \in AdapterClasses /\ Fresh

NextManaged ==
    \/ \E arg \in {"TransformStage", "OutputStage", "Stage"} : add_stage(2, arg)
    \/ \E o \in {2, 3, 4} : pipeline_id(o) \notin DOMAIN pipelines /\ register_pipeline(o)
    \/ \E id \in Ids, data \in Inputs : execute(id, data)
    \/ \E ids \in IdLists, data \in ChainInputs : chain(ids, data)

SpecManaged == InitManaged /\ [][NextManaged]_vars

\* ------------------------------------------------------------------ claims
\* Reference reading of "folding data through the stages in registration
\* order": Folded(stgs, data)[k + 1] is the value after the first k stages,
\* and no value once a stage has failed.
FoldedNext(stage, x) == IF x.t = "absent" THEN NoValue ELSE stage_process(stage, x).val
RECURSIVE FoldedFrom(_, _)
FoldedFrom(stgs, acc) ==
    IF Len(acc) > Len(stgs) THEN acc
    ELSE FoldedFrom(stgs, Append(acc, FoldedNext(stgs[Len(acc)], acc[Len(acc)])))
Folded(stgs, data) == FoldedFrom(stgs, <<data>>)

\* stage k is reached and fails on the value F[k] folded before it
FailsAt(stgs, F, k) == F[k].t # "absent" /\ F[k + 1].t = "absent"
AllSucceed(stgs, F) == \A k \in 1..Len(stgs) : ~FailsAt(stgs, F, k)
FirstFailing(stgs, F) == CHOOSE k \in 1..Len(stgs) : FailsAt(stgs, F, k)

\* run returned the folded value, counted one run and no error
RunSucceeded(o, F, r) ==
    /\ r.out.ok
    /\ r.out.val = F[Len(F)]
    /\ r.metrics[o].runs = metrics[o].runs + 1
    /\ r.metrics[o].errors = metrics[o].errors
    /\ \A p \in Objs \ {o} : r.metrics[p] = metrics[p]

\* run raised the error of stage k after calling the stages 1..k, counted
\* one run and one error
RunFailedAt(o, k, F, r) ==
    /\ ~r.out.ok
    /\ r.out.err = stage_process(stages[o][k], F[k]).err
    /\ r.invoked = [i \in 1..k |-> <<o, i>>]
    /\ r.metrics[o].runs = metrics[o].runs + 1
    /\ r.metrics[o].errors = metrics[o].errors + 1
    /\ \A p \in Objs \ {o} : r.metrics[p] = metrics[p]

RunAsFolded(o, F, r) ==
    AllSucceed(stages[o], F) => RunSucceeded(o, F, r)

RunAsFirstFailure(o, F, r) ==
    ~AllSucceed(stages[o], F) => RunFailedAt(o, FirstFailing(stages[o], F), F, r)

\* C1: when every stage succeeds on the input, run returns the input folded
\* through the stages in registration order, adds exactly 1 to runs and
\* leaves errors as it was.
C1_RunFoldsInOrder ==
    \A o \in Objs, data \in Inputs :
        RunAsFolded(o, Folded(stages[o], data), ProcessingPipeline_run(metrics, o, data))

\* C2: when stage k is the first to fail, run adds exactly 1 to errors and
\* to runs, calls the stages 1..k and none after k, and raises the error of
\* stage k itself.
C2_RunFirstFailure ==
    \A o \in Objs, data \in Inputs :
        RunAsFirstFailure(o, Folded(stages[o], data),
                          ProcessingPipeline_run(metrics, o, data))

\* C1 witness: the pipeline built as Input-wrap, Transform, Output-format has
\* been run twice, both runs returning.
C1_Witness ==
    /\ last.op = "run" /\ last.ok
    /\ stages[1] = <<"InputStage", "TransformStage", "OutputStage">>
    /\ metrics[1] = [runs |-> 2, errors |-> 0]
    /\ metrics[4].runs = 0

\* C2 witness: a run of Input-wrap, base Stage, Transform has failed at its
\* second stage, with a stage left after it.
C2_Witness ==
    /\ last.op = "run" /\ ~last.ok /\ last.error = "Exception"
    /\ stages[1] = <<"InputStage", "Stage", "TransformStage">>
    /\ metrics[1] = [runs |-> 1, errors |-> 1]
    /\ metrics[4].runs = 0

\* C3: in every reachable state every pipeline has errors <= runs.
C3_ErrorsAtMostRuns == \A o \in Objs : metrics[o].errors <= metrics[o].runs

\* C3 witness: after a chain, the registered pipeline has run twice, once
\* failing and once returning through the manager.
C3_Witness ==
    /\ last.op = "chain"
    /\ metrics[1] = [runs |-> 2, errors |-> 1]
    /\ StatsOf(stats, "A") = 1

\* the stats of the ids other than id are as before the call
OtherStatsKept(id, e) == \A j \in Ids \ {id} : StatsOf(e.stats, j) = StatsOf(stats, j)

\* what execute(id, data) did on the pipeline o registered under id, p being
\* the pipeline call on its own and F the reference fold of o's stages
ExecuteCountsSuccess(id, o, F, p, e) ==
    /\ e.out.ok <=> p.out.ok
    /\ e.out.ok => StatsOf(e.stats, id) = StatsOf(stats, id) + 1
    /\ ~e.out.ok => e.stats = stats
    /\ OtherStatsKept(id, e)
    /\ class_of(o) = "ProcessingPipeline" =>
          /\ e.out.ok <=> AllSucceed(stages[o], F)
          /\ ~e.out.ok =>
                /\ e.out.err = stage_process(stages[o][FirstFailing(stages[o], F)],
                                             F[FirstFailing(stages[o], F)]).err
                /\ e.metrics[o].runs = metrics[o].runs + 1
                /\ e.metrics[o].errors = metrics[o].errors + 1

\* C4: execute on a registered id adds exactly 1 to stats[id] if and only if
\* the pipeline call returns; when a stage fails its error comes out of
\* execute, stats[id] is unchanged, and that pipeline's runs and errors have
\* each grown by 1.
C4_StatsOnlyOnSuccess ==
    \A id \in DOMAIN pipelines, data \in Inputs :
        ExecuteCountsSuccess(id, pipelines[id], Folded(stages[pipelines[id]], data),
                             pipeline_process(metrics, pipelines[id], data),
                             NexusManager_execute(pipelines, metrics, stats, id, data))

\* C4 witness: pipeline 1 is registered; one execute returned and the last
\* one failed in a stage.
C4_Witness ==
    /\ last.op = "execute" /\ ~last.ok /\ last.error # "KeyError"
    /\ "A" \in DOMAIN pipelines /\ pipelines["A"] = 1
    /\ metrics[1] = [runs |-> 2, errors |-> 1]
    /\ metrics[4].runs = 0
    /\ StatsOf(stats, "A") = 1

\* what execute did for an id that is not registered
ExecuteNotFound(e) ==
    /\ ~e.out.ok /\ e.out.err.type = "KeyError"
    /\ e.ran = <<>> /\ e.invoked = <<>>
    /\ e.stats = stats /\ DOMAIN e.stats = DOMAIN stats
    /\ e.metrics = metrics

\* C5: execute for an id that is not in the registry fails with KeyError (the
\* NotFound kind), runs no pipeline, and leaves stats, its keys included, and
\* every pipeline's metrics unchanged.
C5_UnregisteredNotFound ==
    \A id \in Ids \ DOMAIN pipelines, data \in Inputs :
        ExecuteNotFound(NexusManager_execute(pipelines, metrics, stats, id, data))

\* C5 witness: with A registered and counted, an execute has just failed
\* with KeyError and B has no stats entry.
C5_Witness ==
    /\ last.op = "execute" /\ last.error = "KeyError"
    /\ "A" \in DOMAIN pipelines /\ "B" \notin DOMAIN pipelines
    /\ StatsOf(stats, "A") >= 1 /\ "B" \notin DOMAIN stats

\* Reference reading of chain as "a linear sequence of Execute states":
\* ChainTrace(ids, data)[j + 1] is the state after j execute calls, each fed
\* the result of the one before; the sequence ends at the first failure.
ChainStart(data) ==
    [metrics |-> metrics, stats |-> stats, out |-> Returned(data),
     invoked |-> <<>>, ran |-> <<>>, steps |-> 0]
RECURSIVE ChainTraceFrom(_, _)
ChainTraceFrom(ids, acc) ==
    IF Len(acc) > Len(ids) \/ ~acc[Len(acc)].out.ok THEN acc
    ELSE ChainTraceFrom(ids,
            Append(acc, NexusManager_execute(pipelines, acc[Len(acc)].metrics,
                                             acc[Len(acc)].stats, ids[Len(acc)],
                                             acc[Len(acc)].out.val)))
ChainTrace(ids, data) == ChainTraceFrom(ids, <<ChainStart(data)>>)

Occurrences(ids, n, id) == Cardinality({i \in 1..n : ids[i] = id})
RunsThrough(ids, n, o) ==
    Cardinality({i \in 1..n : ids[i] \in DOMAIN pipelines /\ pipelines[ids[i]] = o})

\* chain did what the k = Len(T) - 1 execute calls of the trace T did, in
\* list order, and nothing at the positions after k
ChainAsSteps(ids, T, r) ==
    /\ r.steps = Len(T) - 1
    /\ r.out = T[Len(T)].out
    /\ r.metrics = T[Len(T)].metrics
    /\ r.stats = T[Len(T)].stats
    /\ r.out.ok <=> (Len(T) - 1 = Len(ids) /\ T[Len(T)].out.ok)
    /\ Len(r.ran) <= Len(T) - 1
    /\ \A j \in 1..Len(r.ran) : r.ran[j] = pipelines[ids[j]]
    /\ \A id \in Ids :
          StatsOf(r.stats, id) =
              StatsOf(stats, id)
              + Occurrences(ids, IF r.out.ok THEN Len(T) - 1 ELSE Len(T) - 2, id)
    /\ \A o \in Objs :
          class_of(o) = "ProcessingPipeline" =>
              r.metrics[o].runs = metrics[o].runs + RunsThrough(ids, Len(T) - 1, o)

\* C6: chain executes the ids in list order, each step fed the result of the
\* one before; at the first failing step k (a stage failure or an id that is
\* not registered) it stops and raises that step's error, calls nothing at a
\* later position, and keeps what the steps before k counted.
C6_ChainStopsAtFirstFailure ==
    \A ids \in IdLists, data \in ChainInputs :
        ChainAsSteps(ids, ChainTrace(ids, data),
                     NexusManager_chain(pipelines, metrics, stats, ids, 1, data))

\* C6 witness: a chain has failed at its second step, in pipeline B; A before
\* it is counted once, C after it has never run.
C6_Witness ==
    /\ last.op = "chain" /\ ~last.ok /\ last.steps = 2 /\ last.error = "Exception"
    /\ DOMAIN pipelines = Ids
    /\ stages[1] = <<"TransformStage">> /\ stages[3] = <<"TransformStage">>
    /\ metrics[1] = [runs |-> 1, errors |-> 0]
    /\ metrics[2] = [runs |-> 1, errors |-> 1]
    /\ metrics[3] = [runs |-> 0, errors |-> 0]
    /\ StatsOf(stats, "A") = 1 /\ "B" \notin DOMAIN stats /\ "C" \notin DOMAIN stats

\* processed(...) nested n times around str(x)
RECURSIVE Nested(_, _)
Nested(n, x) ==
    IF n = 0 THEN Str(x) ELSE Cat3(<<"processed(">>, Nested(n - 1, x), <<")">>)

Distinct(ids) == \A i, j \in 1..Len(ids) : i # j => ids[i] # ids[j]

TransformOnly(ids) ==
    \A j \in 1..Len(ids) :
        /\ ids[j] \in DOMAIN pipelines
        /\ class_of(pipelines[ids[j]]) = "ProcessingPipeline"
        /\ stages[pipelines[ids[j]]] = <<"TransformStage">>

ThreeTimesRawData ==
    PyStrOf(<<"processed(processed(processed(raw_data)))">>)

\* the result r of chaining x through the n Transform-only pipelines of ids
ChainNests(ids, x, r) ==
    /\ r.out.ok
    /\ r.out.val.t = "dict" /\ HasKey(r.out.val, "data")
    /\ GetKey(r.out.val, "data") = PyStrOf(Nested(Len(ids), x))
    /\ (Len(ids) = 3 /\ x = RawData) => GetKey(r.out.val, "data") = ThreeTimesRawData
    /\ \A j \in 1..Len(ids) :
          /\ r.metrics[pipelines[ids[j]]].runs = metrics[pipelines[ids[j]]].runs + 1
          /\ r.metrics[pipelines[ids[j]]].errors = metrics[pipelines[ids[j]]].errors
          /\ StatsOf(r.stats, ids[j]) = StatsOf(stats, ids[j]) + 1
          /\ (metrics[pipelines[ids[j]]].runs = 0 /\ StatsOf(stats, ids[j]) = 0) =>
                /\ r.metrics[pipelines[ids[j]]] = [runs |-> 1, errors |-> 0]
                /\ r.stats[ids[j]] = 1

\* C7: chain over n registered pipelines that each hold exactly one
\* TransformStage, started on a raw value x, returns an envelope whose data
\* field is processed(...) nested n times around x -- for n = 3 and raw_data,
\* processed(processed(processed(raw_data))) -- and counts one run, no error
\* and one stats entry for each of the n pipelines.
C7_ChainNestsMarkers ==
    \A ids \in IdLists, x \in Inputs :
        (Len(ids) >= 1 /\ Distinct(ids) /\ TransformOnly(ids)) =>
            ChainNests(ids, x, NexusManager_chain(pipelines, metrics, stats, ids, 1, x))

\* C7 witness: the chaining demo of main has run: a chain of three steps
\* returned over A, B, C, each a single TransformStage, each counted once.
C7_Witness ==
    /\ last.op = "chain" /\ last.ok /\ last.steps = 3
    /\ DOMAIN pipelines = Ids
    /\ \A o \in {1, 2, 3} :
          stages[o] = <<"TransformStage">> /\ metrics[o] = [runs |-> 1, errors |-> 0]
    /\ \A id \in Ids : StatsOf(stats, id) = 1

\* what the claim expects of an adapter's process(data): src is read() when
\* data is None and data otherwise
AdapterRunsStages(o, src, p) ==
    /\ p.out.ok
    /\ p.out.val = Folded(AdapterStages, src)[Len(AdapterStages) + 1]
    /\ p.out.val = PyStrOf(Cat3(<<"Output: processed(">>, Str(src), <<")">>))
    /\ p.metrics[o].runs = metrics[o].runs + 1

\* C8 (as claimed): an adapter's process called with None folds its own read()
\* through Input-wrap, Transform, Output-format, and called with data folds
\* that data through them; either way the result is the Output-format string
\* and the adapter's runs grows by 1.
C8_AdapterFoldsSource ==
    \A o \in Objs, data \in Inputs :
        (class_of(o) \in AdapterClasses /\ stages[o] = AdapterStages) =>
            AdapterRunsStages(o, IF data.t = "none" THEN read(class_of(o)) ELSE data,
                              pipeline_process(metrics, o, data))

\* execute for the id of new ran new, as new's own process does, and moved
\* no other object's metrics: e is the execute, p the process call
ExecuteRan(new, p, e) ==
    /\ e.ran = <<new>>
    /\ e.out = p.out
    /\ \A old \in Objs \ {new} : e.metrics[old] = metrics[old]

\* every step of the chain r ran what reg2 holds, and never the replaced old
ChainRan(reg2, ids, old, new, r) ==
    /\ \A j \in 1..Len(r.ran) : r.ran[j] = reg2[ids[j]]
    /\ old # new => r.metrics[old] = metrics[old]

\* what registering new under an id that is already present does: reg2 is the
\* registry after it
Replaces(new, reg2) ==
    /\ DOMAIN reg2 = DOMAIN pipelines
    /\ reg2[pipeline_id(new)] = new
    /\ \A id \in DOMAIN pipelines \ {pipeline_id(new)} : reg2[id] = pipelines[id]
    /\ \A data \in Inputs :
          ExecuteRan(new, pipeline_process(metrics, new, data),
                     NexusManager_execute(reg2, metrics, stats, pipeline_id(new), data))
    /\ \A ids \in IdListsOver(DOMAIN reg2), data \in ChainInputs :
          ChainRan(reg2, ids, pipelines[pipeline_id(new)], new,
                   NexusManager_chain(reg2, metrics, stats, ids, 1, data))

\* C9: registering a pipeline under an id already in the registry replaces
\* the entry without error: execute and every chain step for that id run the
\* new instance, the old instance's metrics stay as they are, and the
\* registry holds one entry for the id.
C9_ReRegisterReplaces ==
    \A new \in Objs :
        pipeline_id(new) \in DOMAIN pipelines =>
            Replaces(new, register_pipeline_map(pipelines, new))

\* C9 witness: A was counted twice through the manager, once while the
\* adapter was registered; now pipeline 1 holds the id and the last execute
\* ran it, its only run.
C9_Witness ==
    /\ last.op = "execute" /\ last.ok
    /\ "A" \in DOMAIN pipelines /\ pipelines["A"] = 1
    /\ StatsOf(stats, "A") = 2
    /\ metrics[1] = [runs |-> 1, errors |-> 0]
    /\ metrics[4].runs = 0

\* C10: add_stage with an argument that is no Stage raises nothing and leaves
\* every stage list and the metrics unchanged; with a Stage it appends it at
\* the end of one pipeline's list; no call ever shortens or reorders a list.
C10_AddStageGuard ==
    [][/\ last'.op = "add_stage" =>
            /\ last'.ok
            /\ metrics' = metrics
            /\ \E o \in Objs :
                  stages' = [stages EXCEPT ![o] =
                                IF last'.arg \in StageClasses
                                THEN Append(@, last'.arg) ELSE @]
       /\ \A o \in Objs :
            /\ Len(stages'[o]) >= Len(stages[o])
            /\ SubSeq(stages'[o], 1, Len(stages[o])) = stages[o]]_vars

\* C10 witness: a non-Stage argument has just been passed to add_stage of a
\* session whose pipeline holds two stages and has run.
C10_Witness ==
    /\ last.op = "add_stage" /\ last.arg = NotAStage
    /\ stages[1] = <<"InputStage", "Stage">>
    /\ metrics[1] = [runs |-> 1, errors |-> 1]

\* The MalformedInput kind of section 7: the exceptions data['data'] raises.
MalformedInput == {"KeyError", "TypeError"}
LacksData(x) == ~(x.t = "dict" /\ HasKey(x, "data"))
\* values an Output-format stage is handed: the caller's inputs, what the
\* adapters read, an empty dict, and the envelope of Input-wrap
OutputSamples ==
    Inputs \cup {read(c) : c \in AdapterClasses}
           \cup {PyDict(<<>>), InputStage_process(RawData).val}
OutputStageRejects(r) ==
    ~r.ok /\ r.val = NoValue /\ r.err.type \in MalformedInput

\* stage k of o is an Output-format stage reached with a value lacking data
OutputMeetsMalformed(o, F, k) ==
    stages[o][k] = "OutputStage" /\ F[k].t # "absent" /\ LacksData(F[k])

\* run r of o counted the failure of that stage and raised its error
RunCountsMalformed(o, F, k, r) ==
    /\ ~r.out.ok
    /\ r.out.err = OutputStage_process(F[k]).err
    /\ r.out.err.type \in MalformedInput
    /\ r.metrics[o].runs = metrics[o].runs + 1
    /\ r.metrics[o].errors = metrics[o].errors + 1
    /\ \A p \in Objs \ {o} : r.metrics[p] = metrics[p]

\* execute e of the plain pipeline o let the same error out, uncounted in stats
ExecuteRaisesMalformed(o, F, k, e) ==
    /\ ~e.out.ok
    /\ e.out.err = OutputStage_process(F[k]).err
    /\ e.metrics[o].errors = metrics[o].errors + 1
    /\ e.stats = stats

MalformedInRun(o, F, r) ==
    \A k \in 1..Len(stages[o]) :
        OutputMeetsMalformed(o, F, k) => RunCountsMalformed(o, F, k, r)

MalformedInExecute(o, F, e) ==
    \A k \in 1..Len(stages[o]) :
        OutputMeetsMalformed(o, F, k) => ExecuteRaisesMalformed(o, F, k, e)

\* C11: the Output-format stage given a value without a data field raises
\* KeyError or TypeError (the MalformedInput kind) and returns no string;
\* inside run that failure adds 1 to errors (and to runs) and is raised to
\* the caller of run, and of execute, as the stage raised it.
C11_OutputMalformedInput ==
    /\ \A x \in OutputSamples :
          IF LacksData(x) THEN OutputStageRejects(OutputStage_process(x))
          ELSE OutputStage_process(x).ok
    /\ \A o \in Objs, data \in Inputs :
          MalformedInRun(o, Folded(stages[o], data),
                         ProcessingPipeline_run(metrics, o, data))
    /\ \A id \in DOMAIN pipelines, data \in Inputs :
          class_of(pipelines[id]) = "ProcessingPipeline" =>
              MalformedInExecute(pipelines[id], Folded(stages[pipelines[id]], data),
                                 NexusManager_execute(pipelines, metrics, stats, id, data))

\* C11 witness: a pipeline whose only stage is Output-format has been run
\* once, on a dict without data: the run failed with KeyError and counted
\* one error.
C11_Witness ==
    /\ last.op = "run" /\ ~last.ok /\ last.error = "KeyError"
    /\ stages[1] = <<"OutputStage">>
    /\ metrics[1] = [runs |-> 1, errors |-> 1]

\* stats[id] against the attempts less the failures of the pipeline under id
StatsAreRunsLessErrors(id, o) ==
    StatsOf(stats, id) = metrics[o].runs - metrics[o].errors

\* the same, for the ids held by a plain ProcessingPipeline (this part holds
\* under SpecManaged)
PlainStatsAreRunsLessErrors ==
    \A id \in DOMAIN pipelines :
        class_of(pipelines[id]) = "ProcessingPipeline" =>
            StatsAreRunsLessErrors(id, pipelines[id])

\* C12: for every id whose pipeline was registered once, never replaced and
\* called through execute and chain only, stats[id] = runs - errors of that
\* pipeline in every reachable state, adapters included.
C12_StatsAreRunsLessErrors ==
    \A id \in DOMAIN pipelines : StatsAreRunsLessErrors(id, pipelines[id])

\* a step changed nothing but the metrics of the pipeline registered under id
\* (of no pipeline when id is not registered) and the entry stats[id]
ExecuteFrame(id) ==
    /\ pipelines' = pipelines
    /\ stages' = stages
    /\ adapter' = adapter
    /\ \A p \in Objs :
          (id \notin DOMAIN pipelines \/ p # pipelines[id]) => metrics'[p] = metrics[p]
    /\ \A j \in Ids \ {id} :
          /\ j \in DOMAIN stats' <=> j \in DOMAIN stats
          /\ StatsOf(stats', j) = StatsOf(stats, j)

\* no counter went down in a step
CountersGrow ==
    /\ \A o \in Objs :
          /\ metrics'[o].runs >= metrics[o].runs
          /\ metrics'[o].errors >= metrics[o].errors
    /\ \A j \in Ids : StatsOf(stats', j) >= StatsOf(stats, j)

====
